---- MODULE Spec2Model ----
(***************************************************************************)
(* Model of build.rs of inkjet: the build script that, from the manifest   *)
(* src/languages.toml, optionally re-fetches every grammar repository and  *)
(* regenerates src/languages.rs, and always compiles every grammar.        *)
(*                                                                         *)
(* Strings are sequences of one-character strings, so that                 *)
(* name.replace('-', "_") is computed and path components can be compared  *)
(* with language names.  A path is a sequence of components; the           *)
(* filesystem is the set of the paths that exist.                          *)
(***************************************************************************)
EXTENDS Integers, Sequences, FiniteSets, TLC

\* ------------------------------------------------------------------ bounds
MaxLangs == 2
MaxBuilds == 2
NumWorkers == 2

\* ----------------------------------------------------------------- strings
s_languages == <<"l","a","n","g","u","a","g","e","s">>
s_temp == <<"t","e","m","p">>
s_src == <<"s","r","c">>
s_queries == <<"q","u","e","r","i","e","s">>
s_parser_c == <<"p","a","r","s","e","r",".","c">>
s_scanner_c == <<"s","c","a","n","n","e","r",".","c">>
s_scanner_cc == <<"s","c","a","n","n","e","r",".","c","c">>
s_highlights == <<"h","i","g","h","l","i","g","h","t","s",".","s","c","m">>
s_injections == <<"i","n","j","e","c","t","i","o","n","s",".","s","c","m">>
s_locals == <<"l","o","c","a","l","s",".","s","c","m">>
s_cargo == <<"C","a","r","g","o",".","t","o","m","l">>
s_stale == <<"s","t","a","l","e">>
s_parser == <<"-","p","a","r","s","e","r">>
s_scanner == <<"-","s","c","a","n","n","e","r">>

FileNames ==
  {s_parser_c, s_scanner_c, s_scanner_cc, s_highlights, s_injections, s_locals, s_cargo}

\* -------------------------------------------------------------- filesystem
IsPrefix(p, q) == Len(p) <= Len(q) /\ SubSeq(q, 1, Len(p)) = p

Overlap(p, q) == IsPrefix(p, q) \/ IsPrefix(q, p)

Prefixes(p) == {SubSeq(p, 1, k) : k \in 1..Len(p)}

Subtree(f, p) == {q \in f : IsPrefix(p, q)}

IsFile(p) == p # <<>> /\ p[Len(p)] \in FileNames

\* Path::exists
exists(f, p) == p \in f

\* fs::remove_dir_all: an error when the path does not exist
remove_dir_all(f, p) ==
  IF exists(f, p) THEN [ok |-> TRUE, fs |-> f \ Subtree(f, p)]
  ELSE [ok |-> FALSE, fs |-> f]

\* fs::create_dir_all: creates the directory and every missing parent
create_dir_all(f, p) == f \cup Prefixes(p)

\* fs_extra::dir::copy / file::copy of one item into the directory `to`,
\* with CopyOptions::new() (overwrite = false, skip_exist = false):
\* a missing item is an error, and so is a file that already exists at its
\* destination (the directories of the item are created before that).
copy_item(f, item, to) ==
  LET base == <<item[Len(item)]>>
      Dest(q) == to \o base \o SubSeq(q, Len(item) + 1, Len(q))
      tree == Subtree(f, item)
      dirs == {Dest(q) : q \in {r \in tree : ~IsFile(r)}}
      files == {Dest(q) : q \in {r \in tree : IsFile(r)}}
  IN IF ~exists(f, item) THEN [ok |-> FALSE, fs |-> f]
     ELSE IF files \cap f # {} THEN [ok |-> FALSE, fs |-> f \cup dirs]
     ELSE [ok |-> TRUE, fs |-> f \cup dirs \cup files]

\* fs_extra::copy_items: the items in order, stopping at the first error
RECURSIVE copy_items(_, _, _)
copy_items(f, from, to) ==
  IF from = <<>> THEN [ok |-> TRUE, fs |-> f]
  ELSE LET r == copy_item(f, Head(from), to)
       IN IF r.ok THEN copy_items(r.fs, Tail(from), to) ELSE r

\* ---------------------------------------------------------------- manifest
\* struct Language.  `command` is whether a custom fetch command is given;
\* `repo` stands for the tree that the source location (or the custom
\* command) delivers: paths relative to the staging path of the language.
Language(name, aliases, command, repo) ==
  [name |-> name, aliases |-> aliases, command |-> command, repo |-> repo]

n_foo == <<"f","o","o">>
n_fbar == <<"f","b","a","r">>
n_bar == <<"b","a","r">>
n_dash == <<"a","-","b">>
n_ab == <<"a","b">>
n_und == <<"a","_","b">>
n_nq == <<"n","q">>

\* no scanner, no query files, something else fetched besides src and queries
Foo == Language(n_foo, <<n_fbar>>, FALSE,
  {<<s_src>>, <<s_src, s_parser_c>>, <<s_queries>>, <<s_cargo>>})
\* custom command, plain scanner
Bar == Language(n_bar, <<>>, TRUE,
  {<<s_src>>, <<s_src, s_parser_c>>, <<s_src, s_scanner_c>>,
   <<s_queries>>, <<s_queries, s_highlights>>})
\* both scanner dialects, every query kind
Dash == Language(n_dash, <<n_ab>>, FALSE,
  {<<s_src>>, <<s_src, s_parser_c>>, <<s_src, s_scanner_c>>, <<s_src, s_scanner_cc>>,
   <<s_queries>>, <<s_queries, s_highlights>>, <<s_queries, s_injections>>,
   <<s_queries, s_locals>>})
\* alternate scanner only; its alias is the name of Foo
Und == Language(n_und, <<n_foo>>, FALSE,
  {<<s_src>>, <<s_src, s_parser_c>>, <<s_src, s_scanner_cc>>,
   <<s_queries>>, <<s_queries, s_locals>>, <<s_cargo>>})
\* a language whose name is the name of the staging root
Temp == Language(s_temp, <<>>, FALSE,
  {<<s_src>>, <<s_src, s_parser_c>>, <<s_queries>>, <<s_queries, s_injections>>})
\* a repository without a queries directory
Nq == Language(n_nq, <<>>, FALSE, {<<s_src>>, <<s_src, s_parser_c>>, <<s_cargo>>})

Descriptors == {Foo, Bar, Dash, Und, Temp, Nq}

Range(s) == {s[i] : i \in DOMAIN s}

\* toml::from_str::<Languages>: the manifests of the model, every list of
\* 1..MaxLangs different descriptors, in every order
Manifests ==
  {m \in UNION {[1..n -> Descriptors] : n \in 1..MaxLangs} :
     \A i, j \in DOMAIN m : i # j => m[i] # m[j]}

\* src/languages.toml: a list of entries, each field of an entry given (a
\* one-element sequence) or left out (the empty sequence)
entry_of(lang) ==
  [name |-> <<lang.name>>, repo |-> <<lang.repo>>,
   aliases |-> IF lang.aliases = <<>> THEN <<>> ELSE <<lang.aliases>>,
   command |-> IF lang.command THEN <<"sh -c">> ELSE <<>>]

\* an entry with one of its fields left out
without(e, field) == [e EXCEPT ![field] = <<>>]

\* the manifest files of the model: the text of every manifest of
\* Manifests (aliases are left out when there are none), and the
\* one-entry manifests with the name or the repo left out
Tomls ==
  {[k \in DOMAIN m |-> entry_of(m[k])] : m \in Manifests} \cup
  {<<without(entry_of(d), field)>> : d \in Descriptors, field \in {"name", "repo"}}

\* #[derive(Deserialize)] struct Language: name and repo are String and
\* must be given, aliases has #[serde(default)], command is an Option
deserialize(e) ==
  IF e.name = <<>> \/ e.repo = <<>>
  THEN [ok |-> FALSE, languages |-> <<>>]
  ELSE [ok |-> TRUE,
        languages |-> <<Language(e.name[1],
                                 IF e.aliases = <<>> THEN <<>> ELSE e.aliases[1],
                                 e.command # <<>>, e.repo[1])>>]

\* toml::from_str::<Languages>(&languages)?.languages: every entry
\* deserialized, or the error of the first one that fails
RECURSIVE from_str(_)
from_str(t) ==
  IF t = <<>> THEN [ok |-> TRUE, languages |-> <<>>]
  ELSE LET h == deserialize(Head(t))
           r == from_str(Tail(t))
       IN IF h.ok /\ r.ok
          THEN [ok |-> TRUE, languages |-> h.languages \o r.languages]
          ELSE [ok |-> FALSE, languages |-> <<>>]

\* ------------------------------------------------------------------- paths
\* "languages"
root == <<s_languages>>
\* "languages/temp"
staging_root == <<s_languages, s_temp>>
\* format!("languages/temp/{}", self.name)
staging_path(lang) == <<s_languages, s_temp, lang.name>>
\* format!("languages/{}", lang.name)
canonical(lang) == <<s_languages, lang.name>>
\* Path::new("languages").join(&self.name).join("src")
src_path(lang) == <<s_languages, lang.name, s_src>>
\* format!("languages/{name}/queries/<kind>.scm")
query_path(lang, kind) == <<s_languages, lang.name, s_queries, kind>>

\* what a fetch process that ran to the end leaves at the staging path
fetched(lang) ==
  Prefixes(staging_path(lang)) \cup {staging_path(lang) \o r : r \in lang.repo}

\* the canonical directory as a pass that relocated the language leaves it
relocated(lang) ==
  Prefixes(canonical(lang)) \cup
  {canonical(lang) \o r : r \in {q \in lang.repo : q[1] \in {s_src, s_queries}}}

\* ----------------------------------------------------------------- codegen
\* self.name.replace('-', "_")
name_ident(name) == [k \in DOMAIN name |-> IF name[k] = "-" THEN "_" ELSE name[k]]

\* "\"\"" when the file is absent, include_str!("../<path>") when present
query_const(f, path) ==
  IF exists(f, path) THEN [include_str |-> path] ELSE [literal |-> <<>>]

\* the loop over the aliases left out: only the name is entered
entries_of_name_only(lang) ==
  <<[key |-> lang.name, value |-> name_ident(lang.name)]>>

\* the (key, value) pairs Language::codegen hands to map.entry, in order:
\* the name first, then every alias; the value names the factory
\* {name_ident}::config
entries_of(lang) ==
  <<[key |-> lang.name, value |-> name_ident(lang.name)]>> \o
  [k \in DOMAIN lang.aliases |->
     [key |-> lang.aliases[k], value |-> name_ident(lang.name)]]

\* the probe of injections.scm pasted into the locals constant
module_of_pasted(f, lang) ==
  [ident |-> name_ident(lang.name),
   HIGHLIGHT_QUERY |-> query_const(f, query_path(lang, s_highlights)),
   INJECTIONS_QUERY |-> query_const(f, query_path(lang, s_injections)),
   LOCALS_QUERY |-> query_const(f, query_path(lang, s_injections))]

\* the module Language::codegen pushes to the buffer
module_of(f, lang) ==
  [ident |-> name_ident(lang.name),
   HIGHLIGHT_QUERY |-> query_const(f, query_path(lang, s_highlights)),
   INJECTIONS_QUERY |-> query_const(f, query_path(lang, s_injections)),
   LOCALS_QUERY |-> query_const(f, query_path(lang, s_locals))]

\* the module and the entries put in front of what has been accumulated
codegen_in_front(f, lang, acc) ==
  [buffer |-> <<module_of(f, lang)>> \o acc.buffer,
   map |-> entries_of(lang) \o acc.map]

\* Language::codegen: one more module in the buffer, more entries in the map
codegen(f, lang, acc) ==
  [buffer |-> Append(acc.buffer, module_of(f, lang)),
   map |-> acc.map \o entries_of(lang)]

\* the loop `for lang in languages { lang.codegen(&mut buffer, &mut map) }`
\* over the first k languages
RECURSIVE codegen_loop(_, _, _)
codegen_loop(f, langs, k) ==
  IF k = 0 THEN [buffer |-> <<>>, map |-> <<>>]
  ELSE codegen(f, langs[k], codegen_loop(f, langs, k - 1))

\* a table builder that lets a later entry shadow an earlier one of its key
build_shadowing(map) ==
  [ok |-> TRUE,
   table |-> {map[a] : a \in {b \in DOMAIN map :
                                \A c \in DOMAIN map : map[c].key = map[b].key => c <= b}}]

\* phf_codegen::Map::build: the finished table, the set of (key, value)
\* pairs; it panics on a key entered twice
build(map) ==
  IF \E a, b \in DOMAIN map : a # b /\ map[a].key = map[b].key
  THEN [ok |-> FALSE, table |-> {}]
  ELSE [ok |-> TRUE, table |-> Range(map)]

\* ----------------------------------------------------------------- compile
\* one cc::Build ... .compile(artifact): the toolchain runs on `files`; it
\* fails when one of them is missing
cc_compile(f, lang, suffix, files, cpp, opt) ==
  [lang |-> lang.name, artifact |-> lang.name \o suffix, files |-> files,
   cpp |-> cpp, opt |-> opt, ok |-> files \subseteq f,
   dir |-> exists(f, canonical(lang))]

\* the dialect test the other way round: a plain scanner hides the alternate one
compile_plain_wins(f, lang) ==
  LET path == src_path(lang)
      has_plain == exists(f, path \o <<s_scanner_c>>)
      scanner_is_cpp == exists(f, path \o <<s_scanner_cc>>) /\ ~has_plain
      parser_files ==
        IF has_plain
        THEN {path \o <<s_parser_c>>, path \o <<s_scanner_c>>}
        ELSE {path \o <<s_parser_c>>}
      scanner_build ==
        IF scanner_is_cpp
        THEN <<cc_compile(f, lang, s_scanner, {path \o <<s_scanner_cc>>}, TRUE, "-O2")>>
        ELSE <<>>
  IN scanner_build \o <<cc_compile(f, lang, s_parser, parser_files, FALSE, "-O1")>>

\* Language::compile: the toolchain invocations it makes, in order
compile(f, lang) ==
  LET path == src_path(lang)
      has_scanner == exists(f, path \o <<s_scanner_c>>) \/ exists(f, path \o <<s_scanner_cc>>)
      scanner_is_cpp == exists(f, path \o <<s_scanner_cc>>)
      parser_files ==
        IF has_scanner /\ ~scanner_is_cpp
        THEN {path \o <<s_parser_c>>, path \o <<s_scanner_c>>}
        ELSE {path \o <<s_parser_c>>}
      scanner_build ==
        IF ~(has_scanner /\ ~scanner_is_cpp) /\ scanner_is_cpp
        THEN <<cc_compile(f, lang, s_scanner, {path \o <<s_scanner_cc>>}, TRUE, "-O2")>>
        ELSE <<>>
  IN scanner_build \o <<cc_compile(f, lang, s_parser, parser_files, FALSE, "-O1")>>

\* ------------------------------------------------------------------- state
VARIABLES
  toml,       \* the entries of src/languages.toml
  manifest,   \* the languages main loads from it (none when it is rejected)
  fs,         \* the paths that exist under the crate directory
  registry,   \* the content of src/languages.rs
  pc,         \* where main is: idle (no build running), download_langs, fetch,
              \* generate, compile
  rebuild,    \* whether INKJET_REBUILD_LANGS is set in the running build
  builds,     \* builds started so far
  task,       \* per language, its item of the fetch fan-out
  child,      \* per language, its fetch process
  full,       \* try_for_each has seen an error: no further item is started
  toolchain,  \* the toolchain invocations of the running build, in order
  compiled,   \* per language, its item of the compile fan-out
  outcome,    \* how the last build ended
  passes,     \* regeneration passes (calls of download_langs) that have ended
  generations \* runs of generate_langs_module so far

vars == <<toml, manifest, fs, registry, pc, rebuild, builds, task, child, full,
          toolchain, compiled, outcome, passes, generations>>

Langs == DOMAIN manifest

\* src/languages.rs as the checkout has it, before any regeneration.
\* `written` tells the committed file, a file generate_langs_module wrote to
\* the end ("whole"), and one it left without LANG_MAP ("no_map")
committed == [written |-> "committed", buffer |-> <<>>, entries |-> <<>>, map |-> {}]

\* the crate directory before the first build: no languages directory; the
\* canonical directories of a checkout; the same with a staging directory
\* that an earlier pass left behind
InitFs(m) ==
  LET checkout == {root} \cup UNION {relocated(m[i]) : i \in DOMAIN m}
  IN {{}, checkout,
      checkout \cup Prefixes(staging_root \o <<s_stale, s_cargo>>)}

Init ==
  /\ toml \in Tomls
  /\ manifest = from_str(toml).languages
  /\ fs \in InitFs(manifest)
  /\ registry = committed
  /\ pc = "idle"
  /\ rebuild = FALSE
  /\ builds = 0
  /\ task = [i \in Langs |-> "pending"]
  /\ child = [i \in Langs |-> "none"]
  /\ full = FALSE
  /\ toolchain = <<>>
  /\ compiled = [i \in Langs |-> "todo"]
  /\ outcome = "none"
  /\ passes = 0
  /\ generations = 0

\* ----------------------------------------------------------------- actions
\* the check of the environment switch left out: every build regenerates
first_stage_unconditional(env) == "download_langs"

\* the call of download_langs left out of the regeneration branch
first_stage_no_download(env) == IF env THEN "generate" ELSE "compile"

\* std::env::var("INKJET_REBUILD_LANGS").is_ok(): where main goes after
\* loading the manifest
first_stage(env) == IF env THEN "download_langs" ELSE "compile"

\* a build starts: main loads the manifest, returning the error of the
\* loader when there is one, and reads the environment switch
main(env) ==
  /\ pc = "idle"
  /\ builds < MaxBuilds
  /\ builds' = builds + 1
  /\ rebuild' = env
  /\ pc' = IF from_str(toml).ok THEN first_stage(env) ELSE "idle"
  /\ task' = [i \in Langs |-> "pending"]
  /\ child' = [i \in Langs |-> "none"]
  /\ full' = FALSE
  /\ toolchain' = <<>>
  /\ compiled' = [i \in Langs |-> "todo"]
  /\ outcome' = IF from_str(toml).ok THEN "running" ELSE "rejected"
  /\ UNCHANGED <<toml, generations, manifest, fs, registry, passes>>

\* the build ends with an error: main returns Err or panics
Abort ==
  /\ pc' = "idle"
  /\ outcome' = "error"

\* fs::remove_dir_all("languages")? left out: only the staging root is made
download_langs_begin_no_wipe ==
  /\ pc = "download_langs"
  /\ fs' = create_dir_all(fs, staging_root)
  /\ pc' = "fetch"
  /\ UNCHANGED <<outcome, passes>>
  /\ UNCHANGED <<toml, generations, manifest, registry, rebuild, builds, task, child, full,
                 toolchain, compiled>>

\* download_langs, before the fan-out: fs::remove_dir_all("languages")?
\* and fs::create_dir_all("languages/temp")?
download_langs_begin ==
  /\ pc = "download_langs"
  /\ LET r == remove_dir_all(fs, root)
     IN IF r.ok
        THEN /\ fs' = create_dir_all(r.fs, staging_root)
             /\ pc' = "fetch"
             /\ UNCHANGED <<outcome, passes>>
        ELSE /\ Abort
             /\ passes' = passes + 1
             /\ UNCHANGED fs
  /\ UNCHANGED <<toml, generations, manifest, registry, rebuild, builds, task, child, full,
                 toolchain, compiled>>

\* the items of the fan-out whose closure is running on a worker
Running == {i \in Langs : task[i] = "spawned"}

\* whether a worker may take the next item of the fan-out
may_start(i) == task[i] = "pending" /\ ~full /\ Cardinality(Running) < NumWorkers

\* Language::download on a worker that took item i: the fetch process is
\* spawned, or spawning fails and the item's closure returns the error
download(i, spawned) ==
  /\ pc = "fetch"
  /\ may_start(i)
  /\ IF spawned
     THEN /\ task' = [task EXCEPT ![i] = "spawned"]
          /\ child' = [child EXCEPT ![i] = "running"]
          /\ UNCHANGED full
     ELSE /\ task' = [task EXCEPT ![i] = "error"]
          /\ full' = TRUE
          /\ UNCHANGED child
  /\ UNCHANGED <<toml, generations, manifest, fs, registry, pc, rebuild, builds, toolchain,
                 compiled, outcome, passes>>

\* what a fetch process may do: git clone delivers the tree and exits 0, or
\* delivers nothing and exits non-zero; a custom command may leave the tree
\* or nothing, with either exit status
Endings(lang) ==
  IF lang.command
  THEN {[status |-> st, wrote |-> w] : st \in {"exit0", "exit1"}, w \in BOOLEAN}
  ELSE {[status |-> "exit0", wrote |-> TRUE], [status |-> "exit1", wrote |-> FALSE]}

\* the fetch process of language i terminates
fetch_exit(i, e) ==
  /\ child[i] = "running"
  /\ e \in Endings(manifest[i])
  /\ child' = [child EXCEPT ![i] = e.status]
  /\ fs' = IF e.wrote THEN fs \cup fetched(manifest[i]) ELSE fs
  /\ UNCHANGED <<toml, generations, manifest, registry, pc, rebuild, builds, task, full,
                 toolchain, compiled, outcome, passes>>

\* what child?.wait()? makes of the terminated process: Ok for every exit
\* status, which the closure then drops
wait(st) == st \in {"exit0", "exit1"}

\* the rest of the closure of try_for_each, after wait has returned:
\* create_dir_all of the canonical directory, copy_items of src and queries
relocate(f, lang) ==
  LET from == <<staging_path(lang) \o <<s_src>>, staging_path(lang) \o <<s_queries>>>>
      to == canonical(lang)
  IN copy_items(create_dir_all(f, to), from, to)

\* the paths the fetch of a language and its relocation write under
writes(lang) == {staging_path(lang), canonical(lang)}

\* the closure of try_for_each for item i, once its process has terminated
await(i) ==
  /\ pc = "fetch"
  /\ task[i] = "spawned"
  /\ child[i] # "running"
  /\ IF wait(child[i])
     THEN LET r == relocate(fs, manifest[i])
          IN /\ fs' = r.fs
             /\ task' = [task EXCEPT ![i] = IF r.ok THEN "relocated" ELSE "error"]
             /\ full' = (full \/ ~r.ok)
     ELSE /\ task' = [task EXCEPT ![i] = "error"]
          /\ full' = TRUE
          /\ UNCHANGED fs
  /\ UNCHANGED <<toml, generations, manifest, registry, pc, rebuild, builds, child, toolchain,
                 compiled, outcome, passes>>

\* the fan-out returning its first error without joining the items in flight
download_langs_end_no_join ==
  /\ pc = "fetch"
  /\ full \/ (Running = {} /\ \A i \in Langs : task[i] # "pending")
  /\ passes' = passes + 1
  /\ LET r == remove_dir_all(fs, staging_root)
     IN IF (\E i \in Langs : task[i] = "error") \/ ~r.ok
        THEN Abort /\ UNCHANGED fs
        ELSE /\ fs' = r.fs
             /\ pc' = "generate"
             /\ UNCHANGED outcome
  /\ UNCHANGED <<toml, generations, manifest, registry, rebuild, builds, task, child, full,
                 toolchain, compiled>>

\* the `?` after try_for_each left out: the error of an item is dropped
download_langs_end_unchecked ==
  /\ pc = "fetch"
  /\ Running = {}
  /\ full \/ \A i \in Langs : task[i] # "pending"
  /\ passes' = passes + 1
  /\ LET r == remove_dir_all(fs, staging_root)
     IN IF ~r.ok
        THEN Abort /\ UNCHANGED fs
        ELSE /\ fs' = r.fs
             /\ pc' = "generate"
             /\ UNCHANGED outcome
  /\ UNCHANGED <<toml, generations, manifest, registry, rebuild, builds, task, child, full,
                 toolchain, compiled>>

\* download_langs, after the fan-out: the error of try_for_each is returned
\* by `?`; without one, fs::remove_dir_all("languages/temp")?
download_langs_end ==
  /\ pc = "fetch"
  /\ Running = {}
  /\ full \/ \A i \in Langs : task[i] # "pending"
  /\ passes' = passes + 1
  /\ LET r == remove_dir_all(fs, staging_root)
     IN IF (\E i \in Langs : task[i] = "error") \/ ~r.ok
        THEN Abort /\ UNCHANGED fs
        ELSE /\ fs' = r.fs
             /\ pc' = "generate"
             /\ UNCHANGED outcome
  /\ UNCHANGED <<toml, generations, manifest, registry, rebuild, builds, task, child, full,
                 toolchain, compiled>>

\* generate_langs_module: the loop over the languages, File::create and the
\* write of the buffer, then map.build() and the write of LANG_MAP
generate_langs_module ==
  /\ pc = "generate"
  /\ LET g == codegen_loop(fs, manifest, Len(manifest))
         b == build(g.map)
     IN IF b.ok
        THEN /\ registry' = [written |-> "whole", buffer |-> g.buffer,
                              entries |-> g.map, map |-> b.table]
             /\ pc' = "compile"
             /\ UNCHANGED outcome
        ELSE /\ registry' = [written |-> "no_map", buffer |-> g.buffer,
                              entries |-> <<>>, map |-> {}]
             /\ Abort
  /\ generations' = generations + 1
  /\ UNCHANGED <<toml, manifest, fs, rebuild, builds, task, child, full, toolchain,
                 compiled, passes>>

\* the compile fan-out started before generate_langs_module has returned
compile_lang_early(i) ==
  /\ pc \in {"generate", "compile"}
  /\ compiled[i] = "todo"
  /\ LET log == compile(fs, manifest[i])
         last == log[Len(log)]
     IN /\ toolchain' = toolchain \o log
        /\ compiled' = [compiled EXCEPT ![i] = IF last.ok THEN "ok" ELSE "panic"]
  /\ UNCHANGED <<toml, generations, manifest, fs, registry, pc, rebuild, builds, task, child,
                 full, outcome, passes>>

\* Language::compile for item i of languages.par_iter().for_each
compile_lang(i) ==
  /\ pc = "compile"
  /\ compiled[i] = "todo"
  /\ LET log == compile(fs, manifest[i])
         last == log[Len(log)]
     IN /\ toolchain' = toolchain \o log
        /\ compiled' = [compiled EXCEPT ![i] = IF last.ok THEN "ok" ELSE "panic"]
  /\ UNCHANGED <<toml, generations, manifest, fs, registry, pc, rebuild, builds, task, child,
                 full, outcome, passes>>

\* main returns after the compile fan-out: Ok(()) when no item panicked; a
\* panic ends the build, whether or not every other item has run
main_end ==
  /\ pc = "compile"
  /\ \/ \A i \in Langs : compiled[i] # "todo"
     \/ \E i \in Langs : compiled[i] = "panic"
  /\ pc' = "idle"
  /\ outcome' = IF \E i \in Langs : compiled[i] = "panic" THEN "error" ELSE "ok"
  /\ UNCHANGED <<toml, generations, manifest, fs, registry, rebuild, builds, task, child, full,
                 toolchain, compiled, passes>>

Next ==
  \/ \E env \in BOOLEAN : main(env)
  \/ download_langs_begin
  \/ \E i \in Langs, spawned \in BOOLEAN : download(i, spawned)
  \/ \E i \in Langs : \E e \in Endings(manifest[i]) : fetch_exit(i, e)
  \/ \E i \in Langs : await(i)
  \/ download_langs_end
  \/ generate_langs_module
  \/ \E i \in Langs : compile_lang(i)
  \/ main_end

Spec == Init /\ [][Next]_vars

\* ================================================================== claims
\* ------------------------------------------------------------------ C1
\* C1 (as claimed): a language whose fetch process exited with a non-zero
\* status is not relocated, the Module Generator and the compiler do not run
\* in that build, and the build ends with an error.
C1_NonZeroExitAborts ==
  \A i \in Langs :
    child[i] = "exit1" =>
      /\ task[i] # "relocated"
      /\ pc \notin {"generate", "compile"}
      /\ (pc = "idle" => outcome = "error")

\* ------------------------------------------------------------------ C2
\* C2 (as claimed): once any fetch process has been awaited (its closure has
\* gone past wait), the fetch process of every language has been spawned.
C2_AllSpawnedBeforeAnyAwait ==
  (\E i \in Langs : child[i] # "none" /\ task[i] \in {"relocated", "error"})
    => \A j \in Langs : task[j] # "pending"

\* ------------------------------------------------------------------ C3
\* a build that has ended, with the switch set, in which no fetch failed and
\* every repository delivers src and queries
GoodRegeneration ==
  /\ pc = "idle" /\ outcome \notin {"none", "rejected"} /\ rebuild
  /\ \A i \in Langs :
       /\ child[i] # "exit1"
       /\ ~(child[i] = "none" /\ task[i] = "error")
       /\ {<<s_src>>, <<s_queries>>} \subseteq manifest[i].repo
       /\ manifest[i].name # s_temp

AllKeys == UNION {{manifest[i].name} \cup Range(manifest[i].aliases) : i \in Langs}

\* C3 (as claimed): a regeneration in which every fetch succeeds ends,
\* whatever was on disk before, with src and queries of every language in
\* its canonical directory, the registry regenerated with every name and
\* alias, and <name>-parser compiled for every language.
C3_RegenerationCompletes ==
  GoodRegeneration =>
    /\ outcome = "ok"
    /\ \A i \in Langs :
         /\ exists(fs, canonical(manifest[i]) \o <<s_src>>)
         /\ exists(fs, canonical(manifest[i]) \o <<s_queries>>)
         /\ \E k \in DOMAIN toolchain :
              toolchain[k].artifact = manifest[i].name \o s_parser /\ toolchain[k].ok
    /\ registry.written = "whole"
    /\ {e.key : e \in registry.map} = AllKeys

\* ------------------------------------------------------------------ C4
\* C4: in a build without the switch, no step changes the filesystem (no
\* canonical directory wiped, no staging path created), no fetch process
\* exists, and the registry file stays as it was.
C4_NoSwitchOnlyCompiles ==
  [][~rebuild' =>
       /\ fs' = fs
       /\ registry' = registry
       /\ \A i \in Langs : child'[i] = "none"]_vars

\* a build without the switch has ended and the toolchain ran in it
C4_Witness ==
  pc = "idle" /\ outcome = "ok" /\ ~rebuild /\ toolchain # <<>> /\ fs # {}

\* ------------------------------------------------------------------ C5
\* C5 (as claimed): once a regeneration pass has ended, whenever no pass is
\* running (between builds, in the Module Generator, in the Native
\* Compiler), nothing exists under the staging root.
C5_NoStagingOutsideFetch ==
  (passes > 0 /\ pc \in {"idle", "generate", "compile"})
    => \A i \in Langs : ~exists(fs, staging_path(manifest[i]))

\* ------------------------------------------------------------------ C6
\* C6 (as claimed): a language whose fetch exited with success and that was
\* relocated has in its canonical directory exactly the src and queries
\* subtrees of its staging path, and its staging path is gone once the
\* fan-out is over.  (Stated for languages whose canonical directory is not
\* the staging root.)
C6_RelocatedExactlyAndUnstaged ==
  \A i \in Langs :
    (child[i] = "exit0" /\ task[i] = "relocated" /\ manifest[i].name # s_temp) =>
      /\ Subtree(fs, canonical(manifest[i])) = Subtree(relocated(manifest[i]), canonical(manifest[i]))
      /\ (pc # "fetch" => ~exists(fs, staging_path(manifest[i])))

\* ------------------------------------------------------------------ C7
DistinctNames == \A i, j \in Langs : i # j => manifest[i].name # manifest[j].name

\* C7 (as claimed): with pairwise distinct names, two items of the fetch
\* fan-out that are in flight together write under paths none of which
\* contains another.
C7_DisjointWrites ==
  DistinctNames =>
    \A i, j \in Running : i # j =>
      \A p \in writes(manifest[i]), q \in writes(manifest[j]) : ~Overlap(p, q)

\* ------------------------------------------------------------------ C8
\* C8 (as claimed): the toolchain is invoked for a language only if its
\* canonical directory exists at that time.
C8_CompiledOnlyIfCanonicalExists ==
  \A k \in DOMAIN toolchain : toolchain[k].dir

\* ------------------------------------------------------------------ C9
HasPlain(lang) == exists(fs, src_path(lang) \o <<s_scanner_c>>)
HasAlt(lang) == exists(fs, src_path(lang) \o <<s_scanner_cc>>)

\* the invocations the build made for a language, without the bookkeeping
InvocationsOf(lang) ==
  LET log == SelectSeq(toolchain, LAMBDA e : e.lang = lang.name)
  IN [k \in DOMAIN log |->
        [artifact |-> log[k].artifact, files |-> log[k].files,
         cpp |-> log[k].cpp, opt |-> log[k].opt]]

\* the scanner-detection policy
Policy(lang) ==
  LET parser(files) ==
        [artifact |-> lang.name \o s_parser, files |-> files, cpp |-> FALSE, opt |-> "-O1"]
      grammar == src_path(lang) \o <<s_parser_c>>
  IN CASE HasAlt(lang) ->
            <<[artifact |-> lang.name \o s_scanner,
               files |-> {src_path(lang) \o <<s_scanner_cc>>},
               cpp |-> TRUE, opt |-> "-O2"],
              parser({grammar})>>
       [] HasPlain(lang) /\ ~HasAlt(lang) ->
            <<parser({grammar, src_path(lang) \o <<s_scanner_c>>})>>
       [] OTHER -> <<parser({grammar})>>

\* C9: a language that was compiled got exactly the artifacts of the policy,
\* in the policy's order, for every presence of scanner.c and scanner.cc.
C9_ScannerPolicy ==
  \A i \in Langs :
    compiled[i] = "ok" => InvocationsOf(manifest[i]) = Policy(manifest[i])

\* a language with both scanner files has been compiled
C9_Witness ==
  \E i \in Langs :
    /\ compiled[i] = "ok"
    /\ HasPlain(manifest[i]) /\ HasAlt(manifest[i])
    /\ Len(InvocationsOf(manifest[i])) = 2

\* ----------------------------------------------------------------- C10
KeysOf(lang) == {lang.name} \cup Range(lang.aliases)

DistinctKeys ==
  /\ \A i, j \in Langs : i # j => KeysOf(manifest[i]) \cap KeysOf(manifest[j]) = {}
  /\ \A i \in Langs :
       Cardinality(KeysOf(manifest[i])) = 1 + Len(manifest[i].aliases)

ContentOf(path) == [include_str |-> path]
EmptyString == [literal |-> <<>>]

ExpectedQuery(lang, kind) ==
  IF exists(fs, query_path(lang, kind))
  THEN ContentOf(query_path(lang, kind))
  ELSE EmptyString

\* C11: whenever the Module Generator runs, each of the three query
\* constants of each language is the content of that kind's file in the
\* canonical queries directory when the file exists at that time and the
\* empty string otherwise, whatever the other two kinds are.
C11_QueryConstants ==
  [][pc = "generate" =>
       /\ Len(registry'.buffer) = Len(manifest)
       /\ \A i \in Langs :
            /\ registry'.buffer[i].HIGHLIGHT_QUERY = ExpectedQuery(manifest[i], s_highlights)
            /\ registry'.buffer[i].INJECTIONS_QUERY = ExpectedQuery(manifest[i], s_injections)
            /\ registry'.buffer[i].LOCALS_QUERY = ExpectedQuery(manifest[i], s_locals)]_vars

\* a module was generated with one kind present and another absent, both ways
C11_Witness ==
  /\ registry.written = "whole"
  /\ \E k \in DOMAIN registry.buffer :
       /\ registry.buffer[k].HIGHLIGHT_QUERY # EmptyString
       /\ registry.buffer[k].LOCALS_QUERY = EmptyString
  /\ \E k \in DOMAIN registry.buffer :
       /\ registry.buffer[k].HIGHLIGHT_QUERY = EmptyString
       /\ registry.buffer[k].LOCALS_QUERY # EmptyString

\* ----------------------------------------------------------------- C12
\* the keys of the first k languages, in manifest order: each name followed
\* by its aliases
RECURSIVE KeysInOrder(_)
KeysInOrder(k) ==
  IF k = 0 THEN <<>>
  ELSE KeysInOrder(k - 1) \o <<manifest[k].name>> \o manifest[k].aliases

\* the registry file was generated before, from canonical directories with
\* the query files that exist now
UnchangedInput ==
  /\ generations > 0
  /\ \A i \in Langs :
       /\ registry.buffer[i].HIGHLIGHT_QUERY = ExpectedQuery(manifest[i], s_highlights)
       /\ registry.buffer[i].INJECTIONS_QUERY = ExpectedQuery(manifest[i], s_injections)
       /\ registry.buffer[i].LOCALS_QUERY = ExpectedQuery(manifest[i], s_locals)

C13_LoaderRejectsOnlyUnfetchable ==
  builds > 0 =>
    (outcome = "rejected" <=>
       \E k \in DOMAIN toml :
         toml[k].name = <<>> \/ (toml[k].repo = <<>> /\ toml[k].command = <<>>))

\* ----------------------------------------------------------------- C14
\* every key of the manifest has an entry in the mapping of the registry
EveryKeyMapped == \A k \in AllKeys : \E e \in registry.map : e.key = k

\* every language of the manifest has its module in the registry
EveryModuleEmitted ==
  /\ Len(registry.buffer) = Len(manifest)
  /\ \A i \in Langs : registry.buffer[i].ident = name_ident(manifest[i].name)

C15_WipedBeforeSpawn ==
  (\E i \in Langs : child[i] # "none") =>
    /\ \A j \in Langs :
         task[j] \in {"pending", "spawned"} =>
           /\ ~exists(fs, canonical(manifest[j]) \o <<s_src>>)
           /\ ~exists(fs, canonical(manifest[j]) \o <<s_queries>>)
    /\ ~exists(fs, staging_root \o <<s_stale>>)

\* a fetch process runs in a build that follows a completed regeneration
C15_Witness ==
  /\ generations > 0
  /\ \E i \in Langs : child[i] = "running"
  /\ \A i \in Langs : manifest[i].name # s_temp

\* ----------------------------------------------------------------- C16
\* C16 (as claimed): when the Module Generator runs, the compile fan-out has
\* completed: every language has been through Language::compile.
C16_GenerationAfterBothPhases ==
  pc = "generate" => \A i \in Langs : compiled[i] # "todo"

\* C16 (amended): when the Module Generator runs, the fetch fan-out has
\* completed and the compile fan-out has not started; in a regenerating
\* build the toolchain runs only after the generator has written the
\* registry, so no compile task overlaps with the accumulation.
C16_GenerationBetweenPhases ==
  /\ pc = "generate" =>
       /\ \A i \in Langs :
            task[i] \notin {"pending", "spawned"} /\ child[i] # "running"
       /\ \A i \in Langs : compiled[i] = "todo"
       /\ toolchain = <<>>
  /\ (rebuild /\ toolchain # <<>>) =>
       pc \in {"compile", "idle"} /\ registry.written = "whole"

\* a compile task has run after the generator, in a regenerating build
C16_Witness ==
  rebuild /\ pc = "compile" /\ \E i \in Langs : compiled[i] = "ok"

\* ----------------------------------------------------------------- C17
\* C17: the Module Generator runs only in a build with the switch set, when
\* the fetch process of every language has terminated and been awaited and
\* its src and queries have been relocated, with no item of the fan-out in
\* flight; and it has run only if a regeneration pass has ended.
C17_GenerationAfterRelocation ==
  /\ pc = "generate" =>
       /\ rebuild
       /\ Running = {}
       /\ \A i \in Langs :
            task[i] = "relocated" /\ child[i] \in {"exit0", "exit1"}
  /\ generations > 0 => passes > 0

\* the generator is about to run on a manifest of several languages
C17_Witness ==
  pc = "generate" /\ Len(manifest) > 1

\* ----------------------------------------------------------------- C18
\* C18 (as claimed): with a key shared by two descriptors, a run of the
\* Module Generator completes and the mapping has one entry for every key.
C18_CollisionShadows ==
  (generations > 0 /\ ~DistinctKeys) =>
    /\ registry.written = "whole"
    /\ \A k \in AllKeys : Cardinality({e \in registry.map : e.key = k}) = 1

\* C18 (amended): with a key shared by two descriptors, a run of the Module
\* Generator does not complete: the modules are written, finishing the
\* mapping fails on the key entered twice, no mapping is written, the build
\* ends with an error and the compiler does not run in it.
C18_CollisionFailsGeneration ==
  ~DistinctKeys =>
    /\ generations > 0 =>
         registry.written = "no_map" /\ registry.map = {} /\ EveryModuleEmitted
    /\ rebuild => pc # "compile" /\ (pc = "idle" => outcome = "error")

\* the generator has run on a manifest with a shared key and the build ended
C18_Witness ==
  /\ ~DistinctKeys /\ generations > 0
  /\ pc = "idle" /\ rebuild /\ \A i \in Langs : task[i] = "relocated"

\* ----------------------------------------------------------------- C19
\* C19: outside the fetch fan-out (in the Module Generator, in the compiler,
\* after the build) no fetch process is running: every process that was
\* spawned has terminated when download_langs returns, with Ok or with Err.
C19_NoFetchOutlivesPass ==
  pc # "fetch" => \A i \in Langs : child[i] # "running"

\* a pass in which two processes were spawned has ended with an error
C19_Witness ==
  /\ pc = "idle" /\ outcome = "error"
  /\ \E i, j \in Langs :
       i # j /\ child[i] # "none" /\ child[j] # "none" /\ task[i] = "error"

\* ----------------------------------------------------------------- C20
\* C20 (as claimed): with pairwise distinct names, the modules of the
\* generated registry have pairwise distinct identifiers (and so bind
\* pairwise distinct tree_sitter_<ident> symbols).
C20_DistinctIdentifiers ==
  (generations > 0 /\ DistinctNames) =>
    \A i, j \in DOMAIN registry.buffer :
      i # j => registry.buffer[i].ident # registry.buffer[j].ident

====
